---- MODULE Spec2Model ----
(***************************************************************************)
(* Model of mlconf-dlp (src/mlconf-dlp.py): content resolution             *)
(* (ContentValidator), timeline building (SlideMapper) and composition     *)
(* planning (VideoGenerator.process).                                      *)
(*                                                                         *)
(* File names, chapter titles, slide ids and URLs are sequences of         *)
(* one-character strings, so that substring tests, glob matching and the   *)
(* regular expression of the source are computed, not assumed.             *)
(* Times are fixed-point: one tick is 0.05 s, so 0.1 s is 2 ticks.         *)
(* The render part of VideoGenerator.process (probe, overlay geometry,     *)
(* encoder subprocess and its supervision) runs against an environment:    *)
(* the encoder is a process of its own that writes to its pipes and exits. *)
(* main is modelled around them: the temporary directory of a URL run, the  *)
(* download, the tests of the options, the cap of --max-duration, the       *)
(* handlers, the cleanup and the exit status.                               *)
(***************************************************************************)
EXTENDS Integers, Sequences, FiniteSets, TLC

VARIABLES
    pc,             \* the next operation of the run
    input_dir,      \* the names of the files of the input directory
    info,           \* what json.load returns for the info.json file
    video_path,     \* result of find_main_video
    json_path,      \* result of find_info_json
    json_data,      \* result of validate_json_structure
    chapter_idx,    \* loop index of validate_slide_files
    slide_mapping,  \* slide id -> (path, type)
    image_count,
    video_count,
    skipped_count,
    timeline,       \* result of build_slide_timeline
    clips,          \* durations of the per-segment clips of process
    total_duration, \* total_duration of process
    error,          \* message of the ValidationError raised, "" if none
    options,        \* the command line: input, verbose, pip_scale, pip_position,
                    \* crf, max_duration, keep_temp, temp_dir
    env,            \* the platform and the media: os.name, what ffprobe does,
                    \* frame size of the first slide and of the speaker video,
                    \* what the download does, whether --temp-dir exists
    target_pip_width, \* target_pip_width of process
    overlay,        \* geometry of ffmpeg.overlay: main W, H, PiP w, h, anchor x, y
    encoder,        \* the encoder subprocess: state, exit status, bytes written
    stderr_pipe,    \* bytes written by the encoder to stderr and not yet read
    stdout_pipe,    \* number of bytes in the stdout pipe
    buffer,         \* buffer of the read loop
    pbar_n,         \* pbar.n
    last_time,      \* last_time of the read loop
    echoed,         \* whether "Successfully created" has been printed
    exit_code,      \* exit status of the command, NoExit while it runs
    temp_dir,       \* temp_dir of main, "" for None
    created_temp_dir, \* created_temp_dir of main
    ffmpeg_error,   \* ffmpeg_error of main
    disk            \* the directories that exist

vars == <<pc, input_dir, info, video_path, json_path, json_data, chapter_idx,
          slide_mapping, image_count, video_count, skipped_count, timeline,
          clips, total_duration, error, options, env, target_pip_width, overlay,
          encoder, stderr_pipe, stdout_pipe, buffer, pbar_n, last_time, echoed,
          exit_code, temp_dir, created_temp_dir, ffmpeg_error, disk>>

selectVars == <<video_path, json_path>>
slideVars == <<chapter_idx, slide_mapping, image_count, video_count, skipped_count>>
planVars == <<clips, total_duration>>
geometryVars == <<target_pip_width, overlay>>
pipeVars == <<stderr_pipe, stdout_pipe>>
progressVars == <<buffer, pbar_n, last_time>>
renderVars == <<options, env, geometryVars, encoder, pipeVars, progressVars, echoed,
                exit_code>>
mainVars == <<temp_dir, created_temp_dir, ffmpeg_error, disk>>

-----------------------------------------------------------------------------
(* Strings                                                                 *)

sSlide == <<"S", "l", "i", "d", "e">>
sDashSlide == <<" ", "-", " ">> \o sSlide \o <<" ">>
sPlaylist == <<"p", "l", "a", "y", "l", "i", "s", "t">>
sMp4 == <<"m", "p", "4">>
sPng == <<"p", "n", "g">>
sJpg == <<"j", "p", "g">>
sJpeg == <<"j", "p", "e", "g">>
sWebp == <<"w", "e", "b", "p">>
sGif == <<"g", "i", "f">>
sInfoJson == <<"i", "n", "f", "o", ".", "j", "s", "o", "n">>
Dot == <<".">>
Star == <<"*">>

Digits == {"0", "1", "2", "3", "4", "5", "6", "7", "8", "9"}
Whitespace == {" ", "\t"}

NoPath == <<>>

\* Python's `sub in s` on strings
Contains(sub, s) ==
    \E i \in 1..(Len(s) - Len(sub) + 1) : SubSeq(s, i, i + Len(sub) - 1) = sub

\* fnmatch of one path component against a pattern whose only wildcard is *
RECURSIVE GlobMatch(_, _)
GlobMatch(pat, s) ==
    IF pat = <<>> THEN s = <<>>
    ELSE IF Head(pat) = "*"
         THEN GlobMatch(Tail(pat), s) \/ (s # <<>> /\ GlobMatch(pat, Tail(s)))
         ELSE s # <<>> /\ Head(s) = Head(pat) /\ GlobMatch(Tail(pat), Tail(s))

\* Path.glob(pattern): the files of the directory whose name matches
Glob(dir, pat) == {f \in dir : GlobMatch(pat, f)}

\* index of the last "." of a name, 0 if none
LastDot(name) ==
    LET ds == {i \in 1..Len(name) : name[i] = "."}
    IN  IF ds = {} THEN 0 ELSE CHOOSE i \in ds : \A j \in ds : j <= i

\* last path component of a '/'-separated path
PathName(p) ==
    LET ss == {i \in 1..Len(p) : p[i] = "/"}
        k == IF ss = {} THEN 0 ELSE CHOOSE i \in ss : \A j \in ss : j <= i
    IN  SubSeq(p, k + 1, Len(p))

\* pathlib: the suffix starts at the last dot unless that dot is the first
\* or the last character of the name
HasSuffix(name) == LET i == LastDot(name) IN 1 < i /\ i < Len(name)

\* Path.suffix, with its leading dot
Suffix(name) ==
    IF HasSuffix(name) THEN SubSeq(name, LastDot(name), Len(name)) ELSE <<>>

\* Path.stem
Stem(name) ==
    IF HasSuffix(name) THEN SubSeq(name, 1, LastDot(name) - 1) ELSE name

\* str.lstrip(".")
RECURSIVE LStripDots(_)
LStripDots(s) ==
    IF s # <<>> /\ Head(s) = "." THEN LStripDots(Tail(s)) ELSE s

-----------------------------------------------------------------------------
(* ContentValidator.find_main_video / find_info_json                       *)

Ok(v) == [ok |-> TRUE, value |-> v, error |-> ""]
Raise(msg) == [ok |-> FALSE, value |-> NoPath, error |-> msg]

\* mutant: the exclusion of slide videos is forgotten
find_main_video_noexclude(dir) ==
    LET video_files == Glob(dir, Star \o Dot \o sMp4)
    IN  IF Cardinality(video_files) = 0 THEN Raise("No speaker video found")
        ELSE IF Cardinality(video_files) > 1 THEN Raise("Multiple video files found")
        ELSE Ok(CHOOSE f \in video_files : TRUE)

find_main_video(dir) ==
    LET video_files == {file \in Glob(dir, Star \o Dot \o sMp4) :
                            ~Contains(sSlide, file) /\ ~Contains(sDashSlide, file)}
    IN  IF Cardinality(video_files) = 0 THEN Raise("No speaker video found")
        ELSE IF Cardinality(video_files) > 1 THEN Raise("Multiple video files found")
        ELSE Ok(CHOOSE f \in video_files : TRUE)

find_info_json(dir) ==
    LET json_files == {file \in Glob(dir, Star \o Dot \o sInfoJson) :
                            ~Contains(sSlide, file) /\ ~Contains(sPlaylist, file)}
    IN  IF Cardinality(json_files) = 0 THEN Raise("No info.json found")
        ELSE IF Cardinality(json_files) > 1 THEN Raise("Multiple info.json files found")
        ELSE Ok(CHOOSE f \in json_files : TRUE)

-----------------------------------------------------------------------------
(* ContentValidator.validate_json_structure                                *)
(* A JSON object is a function from its keys; the value of a top-level key *)
(* carries its Python type, a list its items.                              *)

JList(items) == [type |-> "list", items |-> items]
JOther(t) == [type |-> t, items |-> <<>>]

\* isinstance(v, list)
IsList(v) == v.type = "list"

\* index of the first item of a list that lacks one of the keys, 0 if none
FirstLacking(items, keys) ==
    LET bad == {i \in 1..Len(items) : \E k \in keys : k \notin DOMAIN items[i]}
    IN  IF bad = {} THEN 0 ELSE CHOOSE i \in bad : \A j \in bad : i <= j

\* mutant: a chapter must also carry a title
validate_json_structure_title(file) ==
    LET data == file.data IN
    IF ~file.valid
    THEN [ok |-> FALSE, value |-> data, error |-> "Invalid JSON file"]
    ELSE IF "chapters" \notin DOMAIN data \/ ~IsList(data["chapters"])
    THEN [ok |-> FALSE, value |-> data, error |-> "JSON missing required field: chapters"]
    ELSE IF "thumbnails" \notin DOMAIN data \/ ~IsList(data["thumbnails"])
    THEN [ok |-> FALSE, value |-> data, error |-> "JSON missing required field: thumbnails"]
    ELSE IF FirstLacking(data["chapters"].items, {"start_time", "end_time", "title"}) # 0
    THEN [ok |-> FALSE, value |-> data, error |-> "Chapter missing start_time"]
    ELSE IF FirstLacking(data["thumbnails"].items, {"id", "url"}) # 0
    THEN [ok |-> FALSE, value |-> data, error |-> "Thumbnail missing id"]
    ELSE [ok |-> TRUE, value |-> data, error |-> ""]

\* file is the content of the info.json file: json.load raises JSONDecodeError
\* when it is not valid JSON and returns its data otherwise
validate_json_structure(file) ==
    LET data == file.data IN
    IF ~file.valid
    THEN [ok |-> FALSE, value |-> data, error |-> "Invalid JSON file"]
    ELSE IF "chapters" \notin DOMAIN data \/ ~IsList(data["chapters"])
    THEN [ok |-> FALSE, value |-> data, error |-> "JSON missing required field: chapters"]
    ELSE IF "thumbnails" \notin DOMAIN data \/ ~IsList(data["thumbnails"])
    THEN [ok |-> FALSE, value |-> data, error |-> "JSON missing required field: thumbnails"]
    ELSE LET chapters == data["chapters"].items
             thumbnails == data["thumbnails"].items
             c == FirstLacking(chapters, {"start_time", "end_time"})
             t == FirstLacking(thumbnails, {"id", "url"})
         IN  IF c # 0
             THEN [ok |-> FALSE, value |-> data,
                   error |-> IF "start_time" \notin DOMAIN chapters[c]
                             THEN "Chapter missing start_time"
                             ELSE "Chapter missing end_time"]
             ELSE IF t # 0
             THEN [ok |-> FALSE, value |-> data,
                   error |-> IF "id" \notin DOMAIN thumbnails[t]
                             THEN "Thumbnail missing id"
                             ELSE "Thumbnail missing url"]
             ELSE [ok |-> TRUE, value |-> data, error |-> ""]

-----------------------------------------------------------------------------
(* re.search(r"Slide\s+(\d+)", title)                                      *)

None == <<>>

\* first index >= from whose character is outside the class, Len(s)+1 if none
FirstOutside(s, from, class) ==
    LET out == {j \in from..Len(s) : s[j] \notin class}
    IN  IF out = {} THEN Len(s) + 1 ELSE CHOOSE j \in out : \A k \in out : j <= k

\* group 1 of a match that starts at index i, None if there is none:
\* \s+ and \d+ are greedy and their classes are disjoint
SlideMatchAt(title, i) ==
    LET ws == i + Len(sSlide)
        ds == FirstOutside(title, ws, Whitespace)
        de == FirstOutside(title, ds, Digits)
    IN  IF /\ i + Len(sSlide) - 1 <= Len(title)
           /\ SubSeq(title, i, i + Len(sSlide) - 1) = sSlide
           /\ ds > ws
           /\ de > ds
        THEN SubSeq(title, ds, de - 1)
        ELSE None

\* the slide id of the leftmost match, None if the title has no match
slide_id_of(title) ==
    LET ms == {i \in 1..Len(title) : SlideMatchAt(title, i) # None}
    IN  IF ms = {} THEN None
        ELSE SlideMatchAt(title, CHOOSE i \in ms : \A j \in ms : i <= j)

-----------------------------------------------------------------------------
(* ContentValidator.validate_slide_files                                   *)

\* dict assignment m[k] = v
Put(m, k, v) == [x \in (DOMAIN m) \cup {k} |-> IF x = k THEN v ELSE m[x]]

EmptyMapping == [x \in {} |-> <<>>]

\* the state of the loop over the chapters; error is "" while nothing is raised
LoopState(m, ic, vc, sc, err) ==
    [slide_mapping |-> m, image_count |-> ic, video_count |-> vc,
     skipped_count |-> sc, error |-> err]

\* chapter.get("title", "")
TitleOr(chapter, default) ==
    IF "title" \in DOMAIN chapter THEN chapter["title"] ELSE default

\* {thumb["id"] for thumb in thumbnails}
ThumbnailIds(thumbnails) == {thumbnails[i]["id"] : i \in 1..Len(thumbnails)}

\* next((t for t in thumbnails if t["id"] == slide_id), None)
FirstThumbnail(thumbnails, slide_id) ==
    LET is == {i \in 1..Len(thumbnails) : thumbnails[i]["id"] = slide_id}
    IN  thumbnails[CHOOSE i \in is : \A j \in is : i <= j]

\* Path(url).suffix.lstrip(".")
DeclaredExt(thumbnail) == LStripDots(Suffix(PathName(thumbnail["url"])))

\* f"{video_name}.{slide_id}.{ext}"
ImageName(video_name, slide_id, ext) == video_name \o Dot \o slide_id \o Dot \o ext

\* mutant: jpg is tried before png
alt_exts_jpg_first == <<sJpg, sPng, sJpeg, sWebp>>

\* for alt_ext in ["png", "jpg", "jpeg", "webp"]
alt_exts == <<sPng, sJpg, sJpeg, sWebp>>

\* mutant: a slide with a thumbnail and no image falls back to the skip
image_slide_lenient(st, dir, video_name, slide_id, thumbnails) ==
    LET ext == DeclaredExt(FirstThumbnail(thumbnails, slide_id))
        image_path == ImageName(video_name, slide_id, ext)
        found == {k \in 1..Len(alt_exts) :
                    ImageName(video_name, slide_id, alt_exts[k]) \in dir}
    IN  IF image_path \in dir
        THEN LoopState(Put(st.slide_mapping, slide_id, <<image_path, "image">>),
                       st.image_count + 1, st.video_count, st.skipped_count, "")
        ELSE IF found # {}
        THEN LoopState(Put(st.slide_mapping, slide_id,
                           <<ImageName(video_name, slide_id,
                               alt_exts[CHOOSE k \in found : \A j \in found : k <= j]),
                             "image">>),
                       st.image_count + 1, st.video_count, st.skipped_count, "")
        ELSE LoopState(st.slide_mapping, st.image_count, st.video_count,
                       st.skipped_count + 1, "")

\* the branch `if slide_id in thumbnail_ids`
image_slide(st, dir, video_name, slide_id, thumbnails) ==
    LET ext == DeclaredExt(FirstThumbnail(thumbnails, slide_id))
        image_path == ImageName(video_name, slide_id, ext)
        found == {k \in 1..Len(alt_exts) :
                    ImageName(video_name, slide_id, alt_exts[k]) \in dir}
    IN  IF image_path \in dir
        THEN LoopState(Put(st.slide_mapping, slide_id, <<image_path, "image">>),
                       st.image_count + 1, st.video_count, st.skipped_count, "")
        ELSE IF found # {}
        THEN LoopState(Put(st.slide_mapping, slide_id,
                           <<ImageName(video_name, slide_id,
                               alt_exts[CHOOSE k \in found : \A j \in found : k <= j]),
                             "image">>),
                       st.image_count + 1, st.video_count, st.skipped_count, "")
        ELSE LoopState(st.slide_mapping, st.image_count, st.video_count,
                       st.skipped_count, "Slide file not found for thumbnail")

\* f"*Slide {slide_id}*.mp4"
VideoPattern(slide_id) ==
    Star \o sSlide \o <<" ">> \o slide_id \o Star \o Dot \o sMp4

\* mutant: the strict policy, a chapter without a slide video is fatal
video_slide_strict(st, dir, slide_id) ==
    LET video_slides == Glob(dir, VideoPattern(slide_id))
    IN  IF video_slides # {}
        THEN {LoopState(Put(st.slide_mapping, slide_id, <<f, "video">>),
                        st.image_count, st.video_count + 1, st.skipped_count, "")
                : f \in video_slides}
        ELSE {LoopState(st.slide_mapping, st.image_count, st.video_count,
                        st.skipped_count, "Slide file not found for thumbnail")}

\* the branch of a slide id without a thumbnail; video_slides[0] is the first
\* file of the directory listing, whose order is not specified: every match
\* is a possible outcome
video_slide(st, dir, slide_id) ==
    LET video_slides == Glob(dir, VideoPattern(slide_id))
    IN  IF video_slides # {}
        THEN {LoopState(Put(st.slide_mapping, slide_id, <<f, "video">>),
                        st.image_count, st.video_count + 1, st.skipped_count, "")
                : f \in video_slides}
        ELSE {LoopState(st.slide_mapping, st.image_count, st.video_count,
                        st.skipped_count + 1, "")}

\* mutant: a chapter without a slide id in its title is not counted
chapter_step_uncounted(st, dir, video_name, thumbnails, chapter) ==
    LET title == TitleOr(chapter, <<>>)
        slide_id == slide_id_of(title)
    IN  IF slide_id = None
        THEN {LoopState(st.slide_mapping, st.image_count, st.video_count,
                        st.skipped_count, "")}
        ELSE IF slide_id \in ThumbnailIds(thumbnails)
        THEN {image_slide(st, dir, video_name, slide_id, thumbnails)}
        ELSE video_slide(st, dir, slide_id)

\* one iteration of the loop over the chapters: the possible loop states after it
chapter_step(st, dir, video_name, thumbnails, chapter) ==
    LET title == TitleOr(chapter, <<>>)
        slide_id == slide_id_of(title)
    IN  IF slide_id = None
        THEN {LoopState(st.slide_mapping, st.image_count, st.video_count,
                        st.skipped_count + 1, "")}
        ELSE IF slide_id \in ThumbnailIds(thumbnails)
        THEN {image_slide(st, dir, video_name, slide_id, thumbnails)}
        ELSE video_slide(st, dir, slide_id)

-----------------------------------------------------------------------------
(* SlideMapper.build_slide_timeline                                        *)

\* 0.1 s in ticks
MinDuration == 2

\* f"Chapter {i+1}" for the i-th chapter, counted from 1 here
DigitOf(n) == CASE n = 0 -> "0" [] n = 1 -> "1" [] n = 2 -> "2" [] n = 3 -> "3"
                [] n = 4 -> "4" [] n = 5 -> "5" [] n = 6 -> "6" [] n = 7 -> "7"
                [] n = 8 -> "8" [] n = 9 -> "9"

RECURSIVE Decimal(_)
Decimal(n) == IF n < 10 THEN <<DigitOf(n)>> ELSE Decimal(n \div 10) \o <<DigitOf(n % 10)>>

ChapterTitle(i) == <<"C", "h", "a", "p", "t", "e", "r", " ">> \o Decimal(i)

\* mutant: the short chapter is extended by 0.1 s instead of being set to 0.1 s
clamp_end_added(start_time, end_time) ==
    IF end_time - start_time < MinDuration THEN end_time + MinDuration ELSE end_time

\* mutant: only empty and negative durations are clamped
clamp_end_nonpositive(start_time, end_time) ==
    IF end_time - start_time <= 0 THEN start_time + MinDuration ELSE end_time

\* mutant: 0.1 s is added to every chapter
clamp_end_padded(start_time, end_time) == end_time + MinDuration

\* the end of the segment of a chapter: at least 0.1 s after its start
clamp_end(start_time, end_time) ==
    IF end_time - start_time < MinDuration THEN start_time + MinDuration ELSE end_time

\* mutant: the new segment is put in front
timeline_append_front(timeline_, segment) == <<segment>> \o timeline_

\* timeline.append(...)
timeline_append(timeline_, segment) == Append(timeline_, segment)

\* the loop over the chapters from the i-th on, with the timeline built so far
RECURSIVE build_loop(_, _, _, _)
build_loop(chapters, mapping, i, timeline_) ==
    IF i > Len(chapters) THEN timeline_
    ELSE LET chapter == chapters[i]
             start_time == chapter["start_time"]
             end_time == clamp_end(start_time, chapter["end_time"])
             title == TitleOr(chapter, ChapterTitle(i))
             slide_id == slide_id_of(title)
         IN  IF slide_id # None /\ slide_id \in DOMAIN mapping
             THEN build_loop(chapters, mapping, i + 1,
                     timeline_append(timeline_,
                         <<start_time, end_time, mapping[slide_id][1], mapping[slide_id][2]>>))
             ELSE build_loop(chapters, mapping, i + 1, timeline_)

\* mutant: an empty timeline is returned like any other
build_slide_timeline_lenient(data, mapping) ==
    [ok |-> TRUE, value |-> build_loop(data["chapters"].items, mapping, 1, <<>>),
     error |-> ""]

build_slide_timeline(data, mapping) ==
    LET timeline_ == build_loop(data["chapters"].items, mapping, 1, <<>>)
    IN  IF timeline_ = <<>>
        THEN [ok |-> FALSE, value |-> <<>>, error |-> "No chapters found to create timeline"]
        ELSE [ok |-> TRUE, value |-> timeline_, error |-> ""]

-----------------------------------------------------------------------------
(* VideoGenerator.process: the per-segment clips and the total duration    *)

\* mutant: every clip ends where its segment ends, the first one starts at 0
clip_durations_from_zero(timeline_) ==
    [i \in 1..Len(timeline_) |->
        timeline_[i][2] - (IF i = 1 THEN 0 ELSE timeline_[i - 1][2])]

\* duration = end_time - start_time, the length of the clip of each segment
clip_durations(timeline_) ==
    [i \in 1..Len(timeline_) |-> timeline_[i][2] - timeline_[i][1]]

RECURSIVE SumSeq(_)
SumSeq(s) == IF s = <<>> THEN 0 ELSE Head(s) + SumSeq(Tail(s))

\* ffmpeg.concat(*slide_streams): the clips end to end
concat_duration(clips_) == SumSeq(clips_)

\* total_duration = timeline[-1][1] if timeline else 0
last_end(timeline_) == IF timeline_ # <<>> THEN timeline_[Len(timeline_)][2] ELSE 0

-----------------------------------------------------------------------------
(* VideoGenerator.process: picture-in-picture geometry                     *)

\* pip_scale is a number of tenths: 0 < pip_scale <= 1 is 1..ScaleDen
ScaleDen == 10

\* what subprocess.run(probe_cmd, check=True) and json.loads do, by the way
\* the probe goes wrong: the exception raised, or the parsed output
ProbeFaults ==
    {"none", "ffprobe exits non-zero", "ffprobe missing", "not JSON",
     "no streams key", "empty streams", "no width", "no height"}

\* the parsed output of ffprobe: a dict with a list of stream dicts
ProbeData(fault, size) ==
    LET stream == [k \in {"width", "height"} \ (IF fault = "no width" THEN {"width"}
                                                ELSE IF fault = "no height" THEN {"height"}
                                                ELSE {}) |->
                      IF k = "width" THEN size[1] ELSE size[2]]
    IN  IF fault = "no streams key" THEN [k \in {"programs"} |-> <<>>]
        ELSE [k \in {"programs", "streams"} |->
                 IF k = "streams" /\ fault # "empty streams" THEN <<stream>> ELSE <<>>]

Raised(exception) == [ok |-> FALSE, exception |-> exception, width |-> 0, height |-> 0]
Probed(w, h) == [ok |-> TRUE, exception |-> "", width |-> w, height |-> h]

\* the body of the try block up to slide_height
probe_slide(fault, size) ==
    IF fault = "ffprobe missing" THEN Raised("FileNotFoundError")
    ELSE IF fault = "ffprobe exits non-zero" THEN Raised("CalledProcessError")
    ELSE IF fault = "not JSON" THEN Raised("JSONDecodeError")
    ELSE LET probe_data == ProbeData(fault, size)
         IN  IF "streams" \notin DOMAIN probe_data THEN Raised("KeyError")
             ELSE IF Len(probe_data["streams"]) = 0 THEN Raised("IndexError")
             ELSE IF "width" \notin DOMAIN probe_data["streams"][1] THEN Raised("KeyError")
             ELSE IF "height" \notin DOMAIN probe_data["streams"][1] THEN Raised("KeyError")
             ELSE Probed(probe_data["streams"][1]["width"],
                         probe_data["streams"][1]["height"])

\* except (subprocess.CalledProcessError, json_module.JSONDecodeError, KeyError)
ProbeCaught == {"CalledProcessError", "JSONDecodeError", "KeyError"}

DefaultWidth == 1920

\* int(slide_width * pip_scale): the product, truncated
pip_width(slide_width, pip_scale) == (slide_width * pip_scale) \div ScaleDen

\* trunc(iw/2)*2 of the scale filter of every clip
Even(n) == (n \div 2) * 2

\* the height of scale=w:-2: the speaker's aspect ratio, to the nearest
\* multiple of 2
pip_height(w, speaker_size) ==
    2 * ((2 * w * speaker_size[2] + 2 * speaker_size[1]) \div (4 * speaker_size[1]))

\* mutant: the anchors of the right-hand corners start at the right edge
positions_right_edge ==
    [p \in {"top-right", "top-left", "bottom-right", "bottom-left"} |->
        [x |-> IF p \in {"top-right", "bottom-right"} THEN "W" ELSE "0",
         y |-> IF p \in {"bottom-right", "bottom-left"} THEN "H-h" ELSE "0"]]

\* the positions dict
positions ==
    [p \in {"top-right", "top-left", "bottom-right", "bottom-left"} |->
        [x |-> IF p \in {"top-right", "bottom-right"} THEN "W-w" ELSE "0",
         y |-> IF p \in {"bottom-right", "bottom-left"} THEN "H-h" ELSE "0"]]

\* the value of an expression of the overlay filter
OverlayExpr(expr, W, H, w, h) ==
    CASE expr = "W-w" -> W - w
      [] expr = "H-h" -> H - h
      [] expr = "W" -> W
      [] expr = "0" -> 0

NoOverlay == [W |-> 0, H |-> 0, w |-> 0, h |-> 0, x |-> 0, y |-> 0]

\* ffmpeg.overlay(slides[0], pip, **positions[pip_position])
overlay_of(slide_size, speaker_size, width, pip_position) ==
    LET W == Even(slide_size[1])
        H == Even(slide_size[2])
        h == pip_height(width, speaker_size)
    IN  [W |-> W, H |-> H, w |-> width, h |-> h,
         x |-> OverlayExpr(positions[pip_position].x, W, H, width, h),
         y |-> OverlayExpr(positions[pip_position].y, W, H, width, h)]

-----------------------------------------------------------------------------
(* VideoGenerator.process: the encoder and the read loop of silent mode    *)

\* what the encoder writes to stderr, byte by byte: a "time" byte stands for
\* the text time=HH:MM:SS.ff of that many ticks, "na" for the text time=N/A
CR == [kind |-> "cr", time |-> 0]
LF == [kind |-> "lf", time |-> 0]
NA == [kind |-> "na", time |-> 0]
TimeToken(t) == [kind |-> "time", time |-> t]

\* capacities of the pipes and the size of a read, in bytes
StderrCapacity == 2
StdoutCapacity == 1
ChunkSize == 2

NoExit == -1
NoEncoder == [state |-> "none", returncode |-> NoExit, written |-> 0]

Min(a, b) == IF a < b THEN a ELSE b

\* b"\r" in buffer
Has(buf, kind) == \E i \in 1..Len(buf) : buf[i].kind = kind

\* buffer.index(...)
Index(buf, kind) == CHOOSE i \in 1..Len(buf) :
                       buf[i].kind = kind /\ \A j \in 1..(i - 1) : buf[j].kind # kind

\* idx of the inner loop: the first \r if there is one, else the first \n
line_end(buf) == IF Has(buf, "cr") THEN Index(buf, "cr") ELSE Index(buf, "lf")

NoMatch == -1

\* "time=" in line and re.search(r"time=(\d+):(\d+):(\d+\.\d+)", line):
\* current_time of the first match, NoMatch if there is none
time_match(line) ==
    IF Has(line, "time") THEN line[Index(line, "time")].time ELSE NoMatch

\* mutant: the reported time, not clamped
pbar_update_unclamped(current_time, total) == current_time

\* pbar.n = min(current_time, total_duration)
pbar_update(current_time, total) == Min(current_time, total)

\* mutant: the bar is left where the last report put it
pbar_final_last(n, total) == n

\* pbar.n = total_duration after the loop
pbar_final(n, total) == total

\* mutant: a read waits for data whatever the mode of the descriptor
read_returns_data_only(nonblocking, has_data, eof) == has_data

\* whether process.stderr.read(1024) returns: a non-blocking read always
\* does, a blocking read when there is data or the write end is closed
read_returns(nonblocking, has_data, eof) == nonblocking \/ has_data \/ eof

FFmpegError == "FFmpeg error during video generation"

\* mutant: the exit status is not looked at
render_error_ignored(returncode) == ""

\* if process.returncode != 0: raise ffmpeg.Error, which process turns into
\* a ValidationError; ffmpeg.run raises ffmpeg.Error on the same condition
render_error(returncode) == IF returncode # 0 THEN FFmpegError ELSE ""

-----------------------------------------------------------------------------
(* main: the command line, the cap of the timeline, the temporary directory *)

\* urlparse(input) has a scheme and a netloc for the URLs, for no path
Urls == {"https://slideslive.com/1"}
is_url(input) == input \in Urls

\* os.path.exists and os.path.isdir over the directories that exist and the
\* regular files, which no step of the run makes or removes
Files == {"talk.mp4"}
exists(disk_, path) == path \in disk_ \cup Files
isdir(disk_, path) == path \in disk_

\* os.makedirs, tempfile.mkdtemp(prefix="mlconf-dlp-", dir=".") and shutil.rmtree
RandomDir == "mlconf-dlp-XXXXXXXX"
makedirs(disk_, path) == disk_ \cup {path}
rmtree(disk_, path) == disk_ \ {path}

\* not 0 < pip_scale <= 1, with pip_scale in tenths
pip_scale_valid(pip_scale) == 0 < pip_scale /\ pip_scale <= ScaleDen

\* if crf is None the default of the preset is taken, which is in range;
\* else: not 0 <= crf <= 51
crf_valid(crf) == crf = None \/ (0 <= crf[1] /\ crf[1] <= 51)

\* --max-duration is a number of seconds
Second == 20

\* mutant: a segment that starts at the cap is kept
apply_max_duration_inclusive(timeline_, max_duration) ==
    IF max_duration = None
    THEN timeline_
    ELSE LET cap == max_duration[1] * Second
             Before(segment) == segment[1] <= cap
             kept == SelectSeq(timeline_, Before)
         IN  [i \in 1..Len(kept) |->
                <<kept[i][1], Min(kept[i][2], cap), kept[i][3], kept[i][4]>>]

\* mutant: only the last kept segment is cut at the cap
apply_max_duration_last(timeline_, max_duration) ==
    IF max_duration = None
    THEN timeline_
    ELSE LET cap == max_duration[1] * Second
             Before(segment) == segment[1] < cap
             kept == SelectSeq(timeline_, Before)
         IN  [i \in 1..Len(kept) |->
                <<kept[i][1],
                  IF i = Len(kept) THEN Min(kept[i][2], cap) ELSE kept[i][2],
                  kept[i][3], kept[i][4]>>]

\* if max_duration is not None: the list comprehension over the timeline
apply_max_duration(timeline_, max_duration) ==
    IF max_duration = None
    THEN timeline_
    ELSE LET cap == max_duration[1] * Second
             Before(segment) == segment[1] < cap
             kept == SelectSeq(timeline_, Before)
         IN  [i \in 1..Len(kept) |->
                <<kept[i][1], Min(kept[i][2], cap), kept[i][3], kept[i][4]>>]

\* the summary of main: total_slides and the three counters
generation_summary(timeline_, images, videos, skipped) ==
    [total_slides |-> Len(timeline_), static |-> images, video |-> videos,
     skipped |-> skipped, total_duration |-> last_end(timeline_)]

\* what the download of a URL run does: download_video returns the directory,
\* raises one of its three ValidationErrors, or returns None (info is empty)
DownloadErrors ==
    {"Could not access URL", "Download cancelled by user", "Download failed"}
DownloadOutcomes == {"ok", "None"} \cup DownloadErrors

\* exceptions that are no ValidationError: of process (the probe, ffmpeg.concat
\* and timeline[0] on an empty timeline) and of Path(None) in validate_all
UnexpectedErrors == {"FileNotFoundError", "IndexError", "ValueError"}
UncaughtErrors == {"TypeError"}

\* the ValidationError that process raises: the one of the ffmpeg.Error handler
ProcessValidationErrors == {FFmpegError}

\* should_keep of the final cleanup
should_keep(keep_temp, created, ffmpeg_err) == keep_temp \/ ~created \/ ffmpeg_err

\* mutant: the message of the ValidationError of process is not looked at
is_ffmpeg_error_never(error_) == FALSE

\* "FFmpeg error" in str(e), for the ValidationError that process raises
is_ffmpeg_error(error_) == error_ = FFmpegError

\* mutant: a handler removes the directory whoever made it
handler_cleans_any(created, temp_dir_, disk_) ==
    temp_dir_ # "" /\ exists(disk_, temp_dir_)

\* the guard of shutil.rmtree in the handlers of main
handler_cleans(created, temp_dir_, disk_) ==
    created /\ temp_dir_ # "" /\ exists(disk_, temp_dir_)

\* mutant: a handler of main leaves with status 0
exit_status_zero(error_) == 0

\* sys.exit(1) in every handler, and status 1 of an uncaught exception;
\* status 0 when main returns
exit_status(error_) == IF error_ = "" THEN 0 ELSE 1

-----------------------------------------------------------------------------
(* Inputs                                                                  *)

\* bounds of the inputs
MaxChapters == 2
MaxTime == 2
MaxItems == 2

Talk == <<"T">>
fTalk == Talk \o Dot \o sMp4
fOther == <<"U">> \o Dot \o sMp4
fDeck == sSlide \o <<"s">> \o Dot \o sMp4
fInfo == Talk \o Dot \o sInfoJson
fInfoOther == <<"U">> \o Dot \o sInfoJson
fPlaylistInfo == Talk \o Dot \o sPlaylist \o Dot \o sInfoJson
SlideVideoName(id) == Talk \o sDashSlide \o id \o Dot \o sMp4
SlideInfoName(id) == Talk \o sDashSlide \o id \o Dot \o sInfoJson

\* sequences of at most n elements of S
SeqUpTo(S, n) == UNION {[1..k -> S] : k \in 0..n}

Url(name) == <<"h", "/">> \o name
Thumbnail(id, url) == [id |-> id, url |-> url]
Chapter(s, e, title) == [start_time |-> s, end_time |-> e, title |-> title]
Untitled(s, e) == [start_time |-> s, end_time |-> e]
Absent == <<"<absent>">>
ChapterOf(s, e, title) == IF title = Absent THEN Untitled(s, e) ELSE Chapter(s, e, title)

Title(id) == sSlide \o <<" ">> \o id
sIntro == <<"I", "n", "t", "r", "o">>

JsonFile(chapters, thumbnails) ==
    [valid |-> TRUE,
     data |-> [k \in {"chapters", "thumbnails"} |->
                 IF k = "chapters" THEN JList(chapters) ELSE JList(thumbnails)]]
InvalidJson == [valid |-> FALSE, data |-> [k \in {} |-> JOther("null")]]

\* the end-to-end scenario: three chapters at [0,10], [10,10.05], [10.05,30],
\* three thumbnails and the three images on disk
ScenarioIds == <<(<<"0", "0", "1">>), (<<"0", "0", "2">>), (<<"0", "0", "3">>)>>
ScenarioTimes == <<(<<0, 200>>), (<<200, 201>>), (<<201, 600>>)>>
ScenarioDir ==
    {fTalk, fInfo} \cup {ImageName(Talk, ScenarioIds[i], sPng) : i \in 1..3}
ScenarioInfo ==
    JsonFile([i \in 1..3 |-> Chapter(ScenarioTimes[i][1], ScenarioTimes[i][2],
                                     Title(ScenarioIds[i]))],
             [i \in 1..3 |-> Thumbnail(ScenarioIds[i],
                                       Url(ScenarioIds[i] \o Dot \o sPng))])

\* directories of SpecSelect
SelectFiles ==
    {fTalk, fOther, fDeck, SlideVideoName(<<"1">>),
     fInfo, fInfoOther, fPlaylistInfo, SlideInfoName(<<"1">>),
     ImageName(Talk, <<"1">>, sPng)}

\* contents of the info.json file of SpecJson
ChapterShapes ==
    {[k \in K |-> IF k = "title" THEN Title(<<"1">>) ELSE 0] :
        K \in SUBSET {"start_time", "end_time", "title"}}
ThumbnailShapes ==
    {[k \in K |-> IF k = "id" THEN <<"1">> ELSE Url(<<"1">> \o Dot \o sPng)] :
        K \in SUBSET {"id", "url"}}
JsonValues(shapes) ==
    {JOther("dict"), JOther("str")} \cup {JList(l) : l \in SeqUpTo(shapes, MaxItems)}
JsonObjects ==
    UNION {[K -> {JOther("str")}] : K \in SUBSET {"title"}}
JsonFiles ==
    {InvalidJson} \cup
    {[valid |-> TRUE,
      data |-> [k \in K \cup DOMAIN o |->
                  IF k = "chapters" THEN c ELSE IF k = "thumbnails" THEN t ELSE o[k]]] :
        K \in SUBSET {"chapters", "thumbnails"},
        c \in JsonValues(ChapterShapes),
        t \in JsonValues(ThumbnailShapes),
        o \in JsonObjects}

\* directories and contents of the run of validate_all
SlideFiles ==
    {SlideVideoName(<<"1">>), SlideVideoName(<<"1", "0">>),
     ImageName(Talk, <<"1">>, sPng), ImageName(Talk, <<"1">>, sJpg)}
\* directories with one speaker video and one metadata file, and directories
\* where a selector fails
GoodDirs ==
    {{v, fInfo, fPlaylistInfo} \cup S : v \in {fTalk, fOther}, S \in SUBSET SlideFiles}
BadDirs ==
    {V \cup J \cup S : V \in SUBSET {fTalk, fOther},
                       J \in {{fInfo, fPlaylistInfo}, {fPlaylistInfo}},
                       S \in {{}, SlideFiles}} \ GoodDirs
RunTitles == {Title(<<"1">>), Title(<<"1", "0">>), Title(<<"2">>), sIntro, Absent}
RunChapters ==
    {[i \in DOMAIN ts |-> ChapterOf(4 * (i - 1), 4 * i, ts[i])] :
        ts \in SeqUpTo(RunTitles, MaxChapters)}
RunThumbnails ==
    LET png == Thumbnail(<<"1">>, Url(<<"1">> \o Dot \o sPng))
        jpg == Thumbnail(<<"1">>, Url(<<"1">> \o Dot \o sJpg))
        bare == Thumbnail(<<"1">>, Url(<<"1">>))
        two == Thumbnail(<<"2">>, Url(<<"2">> \o Dot \o sGif))
    IN  {<<>>, <<png>>, <<jpg, png>>, <<bare>>, <<two>>, <<png, two>>}
RunInfos ==
    {InvalidJson, JsonFile(<<Untitled(0, 4)>>, <<[id |-> <<"1">>]>>)} \cup
    {JsonFile(c, t) : c \in RunChapters, t \in RunThumbnails}
RunInputs ==
    (GoodDirs \X RunInfos) \cup (BadDirs \X {ScenarioInfo}) \cup
    {<<ScenarioDir, ScenarioInfo>>}

\* chapter lists and slide mappings of SpecTimeline
TimelineTitles == {Title(<<"1">>), Title(<<"2">>), sIntro}
TimelineChapters ==
    SeqUpTo({ChapterOf(st, e, t) : st \in {0, MaxTime}, e \in 0..MaxTime,
                                   t \in TimelineTitles},
            MaxChapters)
FullMapping ==
    [id \in {<<"1">>, <<"2">>} |->
        IF id = <<"1">> THEN <<ImageName(Talk, id, sPng), "image">>
                        ELSE <<SlideVideoName(id), "video">>]
TimelineMappings == {[id \in D |-> FullMapping[id]] : D \in SUBSET DOMAIN FullMapping}

\* the command line and the environment of a run that stops before the render
LocalDir == "content"
DefaultOptions ==
    [input |-> LocalDir, verbose |-> FALSE, pip_scale |-> 1,
     pip_position |-> "top-right", crf |-> None,
     max_duration |-> None, keep_temp |-> FALSE, temp_dir |-> ""]
DefaultEnv ==
    [nt |-> FALSE, probe_fault |-> "none", slide_size |-> <<1920, 1080>>,
     speaker_size |-> <<1920, 1080>>, download |-> "ok", temp_dir_exists |-> FALSE]

\* the directories at the start: the local input, and --temp-dir if it exists
GivenDir == "tmp"
InitialDisk(e) == {LocalDir} \cup (IF e.temp_dir_exists THEN {GivenDir} ELSE {})

\* frame sizes, scales and positions of SpecOverlay
MaxExtra == 2
SlideSizes ==
    {<<16 + d, 12 + e>> : d \in 0..MaxExtra, e \in 0..1} \cup {<<1920, 1080>>}
SpeakerSizes == {<<16, 9>>, <<9, 16>>}
OverlayOptions ==
    {[DefaultOptions EXCEPT !.pip_scale = s, !.pip_position = p] :
        s \in 1..ScaleDen, p \in DOMAIN positions}
OverlayEnvs ==
    {[DefaultEnv EXCEPT !.probe_fault = f, !.slide_size = ss, !.speaker_size = sp] :
        f \in ProbeFaults, ss \in SlideSizes, sp \in SpeakerSizes}

\* the timeline of the runs of SpecOverlay and SpecRender: one image until MaxTime
RenderTimeline == <<(<<0, MaxTime, ImageName(Talk, <<"1">>, sPng), "image">>)>>

\* what the encoder may write and how much of it, and how it may exit
MaxStream == 4
ReportTimes == {1, MaxTime + 1}
StreamBytes == {CR, LF, NA} \cup {TimeToken(t) : t \in ReportTimes}
ExitCodes == {0, 1}
RenderOptions == {[DefaultOptions EXCEPT !.verbose = v] : v \in BOOLEAN}
RenderEnvs ==
    {[DefaultEnv EXCEPT !.nt = n, !.speaker_size = <<16, 9>>] : n \in BOOLEAN}

\* chapter lists and caps of SpecCap: starts just before and at whole seconds
MaxCap == 2
CapStarts == {0, Second - 1, Second}
CapEnds == {Second, 2 * Second}
CapChapters ==
    SeqUpTo({ChapterOf(st, e, t) : st \in CapStarts, e \in CapEnds,
                                   t \in {Title(<<"1">>), Title(<<"2">>)}},
            2)
CapValues == {None} \cup {<<n>> : n \in 0..MaxCap}
CapOptions == {[DefaultOptions EXCEPT !.max_duration = m] : m \in CapValues}

\* the command lines of SpecMain: the runs on a URL and on a path with their
\* temporary directory, and the values of --pip-scale and --crf
MainPaths == {LocalDir, "talk.mp4", "missing"}
MainCaps == {None, <<0>>, <<10>>}
MainOptions ==
    {[DefaultOptions EXCEPT !.verbose = TRUE, !.input = i, !.temp_dir = t,
                            !.keep_temp = k, !.max_duration = m] :
        i \in Urls \cup MainPaths, t \in {"", GivenDir}, k \in BOOLEAN, m \in MainCaps}
    \cup
    {[DefaultOptions EXCEPT !.verbose = TRUE, !.input = i, !.pip_scale = s, !.crf = c] :
        i \in Urls \cup {LocalDir}, s \in {0, 1, ScaleDen + 1},
        c \in {None, <<-1>>, <<23>>, <<52>>}}
MainEnvs ==
    {[DefaultEnv EXCEPT !.download = d, !.temp_dir_exists = x, !.probe_fault = f] :
        d \in DownloadOutcomes, x \in BOOLEAN, f \in {"none", "ffprobe missing"}}

\* the contents of the directory of SpecMain: the scenario, a directory with
\* no speaker video, with two, unreadable metadata, a slide image that is
\* missing, chapters without slides, a video slide next to a skipped chapter
MainInputs ==
    {<<ScenarioDir, ScenarioInfo>>,
     <<ScenarioDir \ {fTalk}, ScenarioInfo>>,
     <<ScenarioDir \cup {fOther}, ScenarioInfo>>,
     <<ScenarioDir, InvalidJson>>,
     <<ScenarioDir \ {ImageName(Talk, ScenarioIds[2], sPng)}, ScenarioInfo>>,
     <<{fTalk, fInfo}, JsonFile(<<Chapter(0, 200, sIntro)>>, <<>>)>>,
     <<{fTalk, fInfo, SlideVideoName(<<"1">>)},
       JsonFile(<<Chapter(0, 200, Title(<<"1">>)), Chapter(200, 400, sIntro),
                  Chapter(400, 600, Title(<<"1">>))>>, <<>>)>>}

-----------------------------------------------------------------------------
(* The run: validate_all, build_slide_timeline, process                    *)

\* nothing of the render has happened
RenderFresh ==
    /\ target_pip_width = 0
    /\ overlay = NoOverlay
    /\ encoder = NoEncoder
    /\ stderr_pipe = <<>>
    /\ stdout_pipe = 0
    /\ buffer = <<>>
    /\ pbar_n = 0
    /\ last_time = 0
    /\ echoed = FALSE
    /\ exit_code = NoExit

\* main has not started: no directory made, none removed
MainFresh ==
    /\ temp_dir = options.temp_dir
    /\ created_temp_dir = FALSE
    /\ ffmpeg_error = FALSE
    /\ disk = InitialDisk(env)

Fresh ==
    /\ video_path = NoPath
    /\ json_path = NoPath
    /\ chapter_idx = 0
    /\ slide_mapping = EmptyMapping
    /\ image_count = 0
    /\ video_count = 0
    /\ skipped_count = 0
    /\ timeline = <<>>
    /\ clips = <<>>
    /\ total_duration = 0
    /\ error = ""
    /\ options = DefaultOptions
    /\ env = DefaultEnv
    /\ RenderFresh
    /\ MainFresh

Init ==
    /\ pc = "find_main_video"
    /\ \E in \in RunInputs : input_dir = in[1] /\ info = in[2]
    /\ json_data = InvalidJson.data
    /\ Fresh

Fail(msg) ==
    /\ pc' = "error"
    /\ error' = msg

FindMainVideo ==
    /\ pc = "find_main_video"
    /\ LET r == find_main_video(input_dir)
       IN  IF r.ok
           THEN pc' = "find_info_json" /\ video_path' = r.value /\ UNCHANGED error
           ELSE Fail(r.error) /\ UNCHANGED video_path
    /\ UNCHANGED <<input_dir, info, json_path, json_data, slideVars, timeline, planVars,
                   renderVars, mainVars>>

FindInfoJson ==
    /\ pc = "find_info_json"
    /\ LET r == find_info_json(input_dir)
       IN  IF r.ok
           THEN pc' = "validate_json_structure" /\ json_path' = r.value /\ UNCHANGED error
           ELSE Fail(r.error) /\ UNCHANGED json_path
    /\ UNCHANGED <<input_dir, info, video_path, json_data, slideVars, timeline, planVars,
                   renderVars, mainVars>>

ValidateJsonStructure ==
    /\ pc = "validate_json_structure"
    /\ LET r == validate_json_structure(info)
       IN  IF r.ok
           THEN pc' = "validate_slide_files" /\ json_data' = r.value /\ UNCHANGED error
           ELSE Fail(r.error) /\ UNCHANGED json_data
    /\ UNCHANGED <<input_dir, info, selectVars, slideVars, timeline, planVars,
                   renderVars, mainVars>>

\* one iteration of the loop of validate_slide_files
ValidateSlideChapter ==
    /\ pc = "validate_slide_files"
    /\ chapter_idx < Len(json_data["chapters"].items)
    /\ \E st \in chapter_step(
                    LoopState(slide_mapping, image_count, video_count, skipped_count, ""),
                    input_dir, Stem(video_path), json_data["thumbnails"].items,
                    json_data["chapters"].items[chapter_idx + 1]) :
          IF st.error = ""
          THEN /\ slide_mapping' = st.slide_mapping
               /\ image_count' = st.image_count
               /\ video_count' = st.video_count
               /\ skipped_count' = st.skipped_count
               /\ chapter_idx' = chapter_idx + 1
               /\ UNCHANGED <<pc, error>>
          ELSE Fail(st.error) /\ UNCHANGED slideVars
    /\ UNCHANGED <<input_dir, info, selectVars, json_data, timeline, planVars,
                   renderVars, mainVars>>

\* the end of the loop: validate_slide_files and validate_all return
ValidateSlideReturn ==
    /\ pc = "validate_slide_files"
    /\ chapter_idx = Len(json_data["chapters"].items)
    /\ pc' = "build_slide_timeline"
    /\ UNCHANGED <<input_dir, info, selectVars, json_data, slideVars, timeline,
                   planVars, error, renderVars, mainVars>>

BuildSlideTimeline ==
    /\ pc = "build_slide_timeline"
    /\ LET r == build_slide_timeline(json_data, slide_mapping)
       IN  IF r.ok
           THEN pc' = "max_duration" /\ timeline' = r.value /\ UNCHANGED error
           ELSE Fail(r.error) /\ UNCHANGED timeline
    /\ UNCHANGED <<input_dir, info, selectVars, json_data, slideVars, planVars,
                   renderVars, mainVars>>

\* main between build_slide_timeline and process: the cap of --max-duration
ApplyMaxDuration ==
    /\ pc = "max_duration"
    /\ timeline' = apply_max_duration(timeline, options.max_duration)
    /\ pc' = "process"
    /\ UNCHANGED <<input_dir, info, selectVars, json_data, slideVars, planVars, error,
                   renderVars, mainVars>>

\* process up to the concatenation and the total of the progress bar
\* ffmpeg.concat of no stream raises ValueError where the library checks the
\* number of its inputs
Process ==
    /\ pc = "process"
    /\ \E raises \in IF timeline = <<>> THEN BOOLEAN ELSE {FALSE} :
          IF raises
          THEN Fail("ValueError") /\ UNCHANGED planVars
          ELSE /\ clips' = clip_durations(timeline)
               /\ total_duration' = last_end(timeline)
               /\ pc' = "planned"
               /\ UNCHANGED error
    /\ UNCHANGED <<input_dir, info, selectVars, json_data, slideVars, timeline,
                   renderVars, mainVars>>

Next ==
    \/ FindMainVideo
    \/ FindInfoJson
    \/ ValidateJsonStructure
    \/ ValidateSlideChapter
    \/ ValidateSlideReturn
    \/ BuildSlideTimeline
    \/ ApplyMaxDuration
    \/ Process

Spec == Init /\ [][Next]_vars

-----------------------------------------------------------------------------
(* The file selectors on their own                                         *)

InitSelect ==
    /\ pc \in {"find_main_video", "find_info_json"}
    /\ input_dir \in SUBSET SelectFiles
    /\ info = InvalidJson
    /\ json_data = InvalidJson.data
    /\ Fresh

NextSelect == FindMainVideo \/ FindInfoJson

SpecSelect == InitSelect /\ [][NextSelect]_vars

(* validate_json_structure on its own                                      *)

InitJson ==
    /\ pc = "validate_json_structure"
    /\ input_dir = {fTalk, fInfo}
    /\ info \in JsonFiles
    /\ json_data = InvalidJson.data
    /\ Fresh

NextJson == ValidateJsonStructure

SpecJson == InitJson /\ [][NextJson]_vars

(* build_slide_timeline and process on their own                           *)

InitTimeline ==
    /\ pc = "build_slide_timeline"
    /\ input_dir = {}
    /\ info = InvalidJson
    /\ \E c \in TimelineChapters : json_data = JsonFile(c, <<>>).data
    /\ video_path = NoPath
    /\ json_path = NoPath
    /\ chapter_idx = 0
    /\ slide_mapping \in TimelineMappings
    /\ image_count = 0
    /\ video_count = 0
    /\ skipped_count = 0
    /\ timeline = <<>>
    /\ clips = <<>>
    /\ total_duration = 0
    /\ error = ""
    /\ options = DefaultOptions
    /\ env = DefaultEnv
    /\ RenderFresh
    /\ MainFresh

NextTimeline == BuildSlideTimeline \/ ApplyMaxDuration \/ Process

SpecTimeline == InitTimeline /\ [][NextTimeline]_vars

-----------------------------------------------------------------------------
(* process after the clips: probe, overlay, encoder, read loop, exit       *)

notRender == <<input_dir, info, selectVars, json_data, slideVars, timeline, planVars>>

\* the try block around ffprobe and its except clause
Probe ==
    /\ pc = "planned"
    /\ LET r == probe_slide(env.probe_fault, env.slide_size)
       IN  IF timeline = <<>>
           THEN Fail("IndexError") /\ UNCHANGED target_pip_width
           ELSE IF r.ok
           THEN /\ target_pip_width' = pip_width(r.width, options.pip_scale)
                /\ pc' = "overlay"
                /\ UNCHANGED error
           ELSE IF r.exception \in ProbeCaught
           THEN /\ target_pip_width' = pip_width(DefaultWidth, options.pip_scale)
                /\ pc' = "overlay"
                /\ UNCHANGED error
           ELSE Fail(r.exception) /\ UNCHANGED target_pip_width
    /\ UNCHANGED <<notRender, mainVars, options, env, overlay, encoder, pipeVars,
                   progressVars, echoed, exit_code>>

\* pip = speaker.video.filter("scale", target_pip_width, -2) and ffmpeg.overlay
Overlay ==
    /\ pc = "overlay"
    /\ overlay' = overlay_of(env.slide_size, env.speaker_size, target_pip_width,
                             options.pip_position)
    /\ pc' = "run"
    /\ UNCHANGED <<notRender, mainVars, error, options, env, target_pip_width, encoder, pipeVars,
                   progressVars, echoed, exit_code>>

\* ffmpeg...run() starts the encoder and waits for it; subprocess.Popen starts
\* it with both pipes attached, and the progress bar starts at 0
Launch ==
    /\ pc = "run"
    /\ encoder' = [state |-> "running", returncode |-> NoExit, written |-> 0]
    /\ pc' = IF options.verbose THEN "run_wait" ELSE "poll"
    /\ UNCHANGED <<notRender, mainVars, error, options, env, geometryVars, pipeVars, progressVars,
                   echoed, exit_code>>

\* the end of process: the ffmpeg.Error handler, or the success message
Classify ==
    LET e == render_error(encoder.returncode)
    IN  IF e = ""
        THEN echoed' = TRUE /\ pc' = "done" /\ UNCHANGED error
        ELSE Fail(e) /\ UNCHANGED echoed

\* verbose mode: run() returns or raises when the encoder has exited
RunVerbose ==
    /\ pc = "run_wait"
    /\ encoder.state = "exited"
    /\ Classify
    /\ UNCHANGED <<notRender, mainVars, options, env, geometryVars, encoder, pipeVars,
                   progressVars, exit_code>>

\* the head of the read loop: process.poll(), and the last read at exit
Poll ==
    /\ pc = "poll"
    /\ IF encoder.state = "exited"
       THEN /\ buffer' = buffer \o stderr_pipe
            /\ stderr_pipe' = <<>>
            /\ pc' = "finish"
       ELSE /\ pc' = "read"
            /\ UNCHANGED <<buffer, stderr_pipe>>
    /\ UNCHANGED <<notRender, mainVars, error, options, env, geometryVars, encoder, stdout_pipe,
                   pbar_n, last_time, echoed, exit_code>>

\* chunk = process.stderr.read(1024), non-blocking unless os.name is "nt"
Read ==
    /\ pc = "read"
    /\ read_returns(~env.nt, stderr_pipe # <<>>, encoder.state = "exited")
    /\ LET n == Min(ChunkSize, Len(stderr_pipe))
       IN  /\ buffer' = buffer \o SubSeq(stderr_pipe, 1, n)
           /\ stderr_pipe' = SubSeq(stderr_pipe, n + 1, Len(stderr_pipe))
    /\ pc' = "lines"
    /\ UNCHANGED <<notRender, mainVars, error, options, env, geometryVars, encoder, stdout_pipe,
                   pbar_n, last_time, echoed, exit_code>>

\* one iteration of the inner loop: a complete line of the buffer
ProcessLine ==
    /\ pc = "lines"
    /\ Has(buffer, "cr") \/ Has(buffer, "lf")
    /\ LET idx == line_end(buffer)
           line == SubSeq(buffer, 1, idx - 1)
           current_time == time_match(line)
       IN  /\ buffer' = SubSeq(buffer, idx + 1, Len(buffer))
           /\ IF current_time # NoMatch
              THEN /\ pbar_n' = pbar_update(current_time, total_duration)
                   /\ last_time' = current_time
              ELSE UNCHANGED <<pbar_n, last_time>>
    /\ UNCHANGED <<notRender, mainVars, pc, error, options, env, geometryVars, encoder, pipeVars,
                   echoed, exit_code>>

\* the inner loop ends: no complete line is left in the buffer
LinesDone ==
    /\ pc = "lines"
    /\ ~(Has(buffer, "cr") \/ Has(buffer, "lf"))
    /\ pc' = "poll"
    /\ UNCHANGED <<notRender, mainVars, error, options, env, geometryVars, encoder, pipeVars,
                   progressVars, echoed, exit_code>>

\* after the loop: the bar is set to its total and closed
Finish ==
    /\ pc = "finish"
    /\ pbar_n' = pbar_final(pbar_n, total_duration)
    /\ pc' = "wait"
    /\ UNCHANGED <<notRender, mainVars, error, options, env, geometryVars, encoder, pipeVars,
                   buffer, last_time, echoed, exit_code>>

\* process.wait() and the test of the return code
Wait ==
    /\ pc = "wait"
    /\ encoder.state = "exited"
    /\ Classify
    /\ UNCHANGED <<notRender, mainVars, options, env, geometryVars, encoder, pipeVars,
                   progressVars, exit_code>>

\* the end of main: the final cleanup and status 0 after process has returned;
\* else the handler of the exception (of process: ValidationError or any other
\* exception; of the download; of a validation, which removes nothing) and
\* sys.exit(1), or the exception leaves main
MainExit ==
    /\ pc \in {"done", "error"}
    /\ exit_code' = exit_status(error)
    /\ pc' = "exit"
    /\ IF pc = "done"
       THEN /\ disk' = IF temp_dir # "" /\ ~should_keep(options.keep_temp,
                                                          created_temp_dir, ffmpeg_error)
                       THEN rmtree(disk, temp_dir)
                       ELSE disk
            /\ UNCHANGED ffmpeg_error
       ELSE IF error \in ProcessValidationErrors
       THEN /\ ffmpeg_error' = is_ffmpeg_error(error)
            /\ disk' = IF handler_cleans(created_temp_dir, temp_dir, disk)
                          /\ ~is_ffmpeg_error(error)
                       THEN rmtree(disk, temp_dir)
                       ELSE disk
       ELSE IF error \in UnexpectedErrors \cup DownloadErrors
       THEN /\ disk' = IF handler_cleans(created_temp_dir, temp_dir, disk)
                       THEN rmtree(disk, temp_dir)
                       ELSE disk
            /\ UNCHANGED ffmpeg_error
       ELSE UNCHANGED <<ffmpeg_error, disk>>
    /\ UNCHANGED <<notRender, temp_dir, created_temp_dir, error, options, env,
                   geometryVars, encoder, pipeVars, progressVars, echoed>>

(* The encoder, a process of its own                                       *)

\* the encoder writes a byte of its log to stderr when the pipe has room
EncoderWritesStderr ==
    /\ encoder.state = "running"
    /\ ~options.verbose
    /\ encoder.written < MaxStream
    /\ Len(stderr_pipe) < StderrCapacity
    /\ \E b \in StreamBytes : stderr_pipe' = Append(stderr_pipe, b)
    /\ encoder' = [encoder EXCEPT !.written = @ + 1]
    /\ UNCHANGED <<notRender, mainVars, pc, error, options, env, geometryVars, stdout_pipe,
                   progressVars, echoed, exit_code>>

\* the encoder writes a byte to stdout; nothing reads that pipe, so a write
\* to the full pipe never returns
EncoderWritesStdout ==
    /\ encoder.state = "running"
    /\ ~options.verbose
    /\ encoder.written < MaxStream
    /\ IF stdout_pipe < StdoutCapacity
       THEN /\ stdout_pipe' = stdout_pipe + 1
            /\ encoder' = [encoder EXCEPT !.written = @ + 1]
       ELSE /\ encoder' = [encoder EXCEPT !.state = "blocked"]
            /\ UNCHANGED stdout_pipe
    /\ UNCHANGED <<notRender, mainVars, pc, error, options, env, geometryVars, stderr_pipe,
                   progressVars, echoed, exit_code>>

EncoderExits ==
    /\ encoder.state = "running"
    /\ \E rc \in ExitCodes : encoder' = [encoder EXCEPT !.state = "exited",
                                                         !.returncode = rc]
    /\ UNCHANGED <<notRender, mainVars, pc, error, options, env, geometryVars, pipeVars,
                   progressVars, echoed, exit_code>>

(* The picture-in-picture geometry on its own                              *)

InitRenderAt(opts, envs) ==
    /\ pc = "process"
    /\ input_dir = {}
    /\ info = InvalidJson
    /\ json_data = InvalidJson.data
    /\ video_path = fTalk
    /\ json_path = NoPath
    /\ chapter_idx = 0
    /\ slide_mapping = EmptyMapping
    /\ image_count = 0
    /\ video_count = 0
    /\ skipped_count = 0
    /\ timeline = RenderTimeline
    /\ clips = <<>>
    /\ total_duration = 0
    /\ error = ""
    /\ options \in opts
    /\ env \in envs
    /\ RenderFresh
    /\ MainFresh

InitOverlay == InitRenderAt(OverlayOptions, OverlayEnvs)

NextOverlay == Process \/ Probe \/ Overlay

SpecOverlay == InitOverlay /\ [][NextOverlay]_vars

(* The render: process and the encoder side by side                        *)

InitRender == InitRenderAt(RenderOptions, RenderEnvs)

Supervise ==
    \/ Process
    \/ Probe
    \/ Overlay
    \/ Launch
    \/ RunVerbose
    \/ Poll
    \/ Read
    \/ ProcessLine
    \/ LinesDone
    \/ Finish
    \/ Wait
    \/ MainExit

EncoderStep == EncoderWritesStderr \/ EncoderWritesStdout \/ EncoderExits

NextRender == Supervise \/ EncoderStep

SpecRender == InitRender /\ [][NextRender]_vars

\* the supervisor is a running thread: it takes its next step when it has one
SpecRenderLive == SpecRender /\ WF_vars(Supervise)

-----------------------------------------------------------------------------
(* build_slide_timeline, the cap and the plan of process on their own       *)

InitCap ==
    /\ pc = "build_slide_timeline"
    /\ input_dir = {}
    /\ info = InvalidJson
    /\ \E c \in CapChapters : json_data = JsonFile(c, <<>>).data
    /\ video_path = NoPath
    /\ json_path = NoPath
    /\ chapter_idx = 0
    /\ slide_mapping \in TimelineMappings
    /\ image_count = 0
    /\ video_count = 0
    /\ skipped_count = 0
    /\ timeline = <<>>
    /\ clips = <<>>
    /\ total_duration = 0
    /\ error = ""
    /\ options \in CapOptions
    /\ env = DefaultEnv
    /\ RenderFresh
    /\ MainFresh

NextCap == BuildSlideTimeline \/ ApplyMaxDuration \/ Process \/ Probe

SpecCap == InitCap /\ [][NextCap]_vars

-----------------------------------------------------------------------------
(* main: from the command line to the exit status                          *)

\* the head of main: the temporary directory of a URL run, made unless
\* --temp-dir names a directory that exists; the tests of a local path
Start ==
    /\ pc = "main"
    /\ IF is_url(options.input)
       THEN /\ IF temp_dir # ""
               THEN IF ~exists(disk, temp_dir)
                    THEN /\ disk' = makedirs(disk, temp_dir)
                         /\ created_temp_dir' = TRUE
                         /\ UNCHANGED temp_dir
                    ELSE UNCHANGED <<disk, created_temp_dir, temp_dir>>
               ELSE /\ temp_dir' = RandomDir
                    /\ disk' = makedirs(disk, RandomDir)
                    /\ created_temp_dir' = TRUE
            /\ pc' = "download"
            /\ UNCHANGED error
       ELSE /\ IF ~exists(disk, options.input)
               THEN Fail("Directory does not exist")
               ELSE IF ~isdir(disk, options.input)
               THEN Fail("Input path is not a directory")
               ELSE pc' = "options" /\ UNCHANGED error
            /\ UNCHANGED <<temp_dir, created_temp_dir, disk>>
    /\ UNCHANGED <<notRender, renderVars, ffmpeg_error>>

\* downloader.download_video returns or raises a ValidationError
Download ==
    /\ pc = "download"
    /\ IF env.download \in DownloadErrors
       THEN Fail(env.download)
       ELSE pc' = "options" /\ UNCHANGED error
    /\ UNCHANGED <<notRender, renderVars, mainVars>>

\* the tests of --pip-scale and --crf
ValidateOptions ==
    /\ pc = "options"
    /\ IF ~pip_scale_valid(options.pip_scale)
       THEN Fail("--pip-scale must be between 0 and 1")
       ELSE IF ~crf_valid(options.crf)
       THEN Fail("--crf must be between 0 and 51")
       ELSE pc' = "validate_all" /\ UNCHANGED error
    /\ UNCHANGED <<notRender, renderVars, mainVars>>

\* the head of validate_all: Path(input_dir) of the directory that the download
\* returned (None raises TypeError) or of the local path
ValidateAll ==
    /\ pc = "validate_all"
    /\ LET path == IF is_url(options.input) THEN temp_dir ELSE options.input
       IN  IF is_url(options.input) /\ env.download = "None"
           THEN Fail("TypeError")
           ELSE IF ~exists(disk, path)
           THEN Fail("Input directory does not exist")
           ELSE IF ~isdir(disk, path)
           THEN Fail("Input path is not a directory")
           ELSE pc' = "find_main_video" /\ UNCHANGED error
    /\ UNCHANGED <<notRender, renderVars, mainVars>>

InitMain ==
    /\ pc = "main"
    /\ \E in \in MainInputs : input_dir = in[1] /\ info = in[2]
    /\ json_data = InvalidJson.data
    /\ video_path = NoPath
    /\ json_path = NoPath
    /\ chapter_idx = 0
    /\ slide_mapping = EmptyMapping
    /\ image_count = 0
    /\ video_count = 0
    /\ skipped_count = 0
    /\ timeline = <<>>
    /\ clips = <<>>
    /\ total_duration = 0
    /\ error = ""
    /\ options \in MainOptions
    /\ env \in MainEnvs
    /\ RenderFresh
    /\ MainFresh

NextMain ==
    \/ Start
    \/ Download
    \/ ValidateOptions
    \/ ValidateAll
    \/ FindMainVideo
    \/ FindInfoJson
    \/ ValidateJsonStructure
    \/ ValidateSlideChapter
    \/ ValidateSlideReturn
    \/ BuildSlideTimeline
    \/ ApplyMaxDuration
    \/ Process
    \/ Probe
    \/ Overlay
    \/ Launch
    \/ EncoderExits
    \/ RunVerbose
    \/ MainExit

SpecMain == InitMain /\ [][NextMain]_vars

-----------------------------------------------------------------------------
(* Properties                                                              *)

EndsWith(s, suf) ==
    Len(s) >= Len(suf) /\ SubSeq(s, Len(s) - Len(suf) + 1, Len(s)) = suf

\* the files left after the exclusions, stated on the names
VideoCandidates ==
    {f \in input_dir : EndsWith(f, Dot \o sMp4) /\ ~Contains(sSlide, f)}
JsonCandidates ==
    {f \in input_dir : /\ EndsWith(f, Dot \o sInfoJson)
                       /\ ~Contains(sSlide, f)
                       /\ ~Contains(sPlaylist, f)}

VideoErrors == {"No speaker video found", "Multiple video files found"}
JsonErrors == {"No info.json found", "Multiple info.json files found"}

VideoSelected == video_path # NoPath \/ error \in VideoErrors
JsonSelected == json_path # NoPath \/ error \in JsonErrors

\* C4: find_main_video succeeds exactly when one .mp4 without "Slide" in its
\* name exists and then returns it, find_info_json succeeds exactly when one
\* .info.json without "Slide" and "playlist" in its name exists and then
\* returns it; the outcome is the same as in the directory without the
\* excluded files.
C4_UniqueSelectors ==
    /\ VideoSelected =>
          /\ IF Cardinality(VideoCandidates) = 1
             THEN video_path \in VideoCandidates /\ error \notin VideoErrors
             ELSE video_path = NoPath /\ error \in VideoErrors
          /\ find_main_video(VideoCandidates).value = video_path
    /\ JsonSelected =>
          /\ IF Cardinality(JsonCandidates) = 1
             THEN json_path \in JsonCandidates /\ error \notin JsonErrors
             ELSE json_path = NoPath /\ error \in JsonErrors
          /\ find_info_json(JsonCandidates).value = json_path

C4_Witness ==
    /\ pc = "validate_json_structure"
    /\ video_path = fTalk
    /\ json_path = fInfo
    /\ {fDeck, SlideVideoName(<<"1">>), fPlaylistInfo, SlideInfoName(<<"1">>)}
          \subseteq input_dir

MissingFieldErrors ==
    {"JSON missing required field: chapters", "JSON missing required field: thumbnails",
     "Chapter missing start_time", "Chapter missing end_time",
     "Thumbnail missing id", "Thumbnail missing url"}

\* the cases of a missing field, on the parsed data d
ListField(d, k) == k \in DOMAIN d /\ d[k].type = "list"
SomeItemLacks(d, k, keys) ==
    ListField(d, k) /\ \E i \in 1..Len(d[k].items) : ~(keys \subseteq DOMAIN d[k].items[i])
MissingFieldCase(d) ==
    \/ ~ListField(d, "chapters")
    \/ ~ListField(d, "thumbnails")
    \/ SomeItemLacks(d, "chapters", {"start_time", "end_time"})
    \/ SomeItemLacks(d, "thumbnails", {"id", "url"})

-----------------------------------------------------------------------------
(* Properties of validate_slide_files and validate_all                     *)

Chapters == json_data["chapters"].items
Thumbnails == json_data["thumbnails"].items

\* the slide id in the title of the k-th chapter, None if there is none
ChapterId(k) == slide_id_of(TitleOr(Chapters[k], <<>>))

\* the image files of a slide id, in the order they are tried: the extension
\* of the URL of the first thumbnail with the id, then png, jpg, jpeg, webp
ImageOrder(id) ==
    LET first == CHOOSE i \in 1..Len(Thumbnails) :
                    /\ Thumbnails[i]["id"] = id
                    /\ \A j \in 1..(i - 1) : Thumbnails[j]["id"] # id
        name == PathName(Thumbnails[first]["url"])
        ext == IF HasSuffix(name) THEN SubSeq(name, LastDot(name) + 1, Len(name)) ELSE <<>>
    IN  [k \in 1..5 |-> Stem(video_path) \o Dot \o id \o Dot \o
                            <<ext, sPng, sJpg, sJpeg, sWebp>>[k]]
HasThumbnail(id) == \E i \in 1..Len(Thumbnails) : Thumbnails[i]["id"] = id
HasImage(id) == \E k \in 1..5 : ImageOrder(id)[k] \in input_dir

\* the files named *Slide <id>*.mp4
SlideVideos(id) ==
    {f \in input_dir : /\ EndsWith(f, Dot \o sMp4)
                       /\ Contains(sSlide \o <<" ">> \o id,
                                   SubSeq(f, 1, Len(f) - Len(Dot \o sMp4)))}

SlideError == "Slide file not found for thumbnail"
TimelineError == "No chapters found to create timeline"

\* validate_all has returned / has raised
ValidateAllReturned ==
    pc \in {"build_slide_timeline", "max_duration", "process", "planned"}
    \/ error = TimelineError
ValidateAllRaised == pc = "error" /\ error # TimelineError

\* exactly one speaker video, exactly one metadata file, well-formed metadata
WellFormedDirectory ==
    /\ Cardinality(VideoCandidates) = 1
    /\ Cardinality(JsonCandidates) = 1
    /\ info.valid
    /\ ~MissingFieldCase(info.data)

\* the slide ids of the chapter titles that resolve to a file
ResolvedIds ==
    {ChapterId(k) : k \in {j \in 1..Len(Chapters) :
        /\ ChapterId(j) # None
        /\ IF HasThumbnail(ChapterId(j)) THEN HasImage(ChapterId(j))
                                         ELSE SlideVideos(ChapterId(j)) # {}}}

\* a chapter whose slide id has a thumbnail and no image file
MissingImage ==
    \E k \in 1..Len(Chapters) :
        ChapterId(k) # None /\ HasThumbnail(ChapterId(k)) /\ ~HasImage(ChapterId(k))

\* C1 as stated: on a well-formed directory validate_all always succeeds and
\* the keys of the mapping are the slide ids of the chapter titles that
\* resolved to a file.
C1_AlwaysSucceeds ==
    WellFormedDirectory /\ (ValidateAllReturned \/ ValidateAllRaised) =>
        ValidateAllReturned /\ DOMAIN slide_mapping = ResolvedIds

\* C1 amended: on a well-formed directory validate_all raises the missing
\* slide error when some chapter's slide id has a thumbnail and none of its
\* image files exists, and otherwise succeeds with a mapping whose keys are
\* the slide ids of the chapter titles that resolved to a file.
C1_SucceedsUnlessMissingImage ==
    WellFormedDirectory /\ (ValidateAllReturned \/ ValidateAllRaised) =>
        IF MissingImage
        THEN ValidateAllRaised /\ error = SlideError
        ELSE ValidateAllReturned /\ DOMAIN slide_mapping = ResolvedIds

C1_Witness ==
    /\ pc = "build_slide_timeline"
    /\ WellFormedDirectory
    /\ Len(Chapters) = 2
    /\ Cardinality(DOMAIN slide_mapping) = 1
    /\ skipped_count = 1
    /\ ChapterId(1) # None
    /\ ChapterId(2) # None

\* the chapter the loop of validate_slide_files is at has a slide id without
\* thumbnail and without slide video
AtChapterWithoutAsset ==
    /\ pc = "validate_slide_files"
    /\ chapter_idx < Len(Chapters)
    /\ ChapterId(chapter_idx + 1) # None
    /\ ~HasThumbnail(ChapterId(chapter_idx + 1))
    /\ SlideVideos(ChapterId(chapter_idx + 1)) = {}

\* C2: a chapter whose slide id has no thumbnail and no file *Slide <id>*.mp4
\* is skipped: nothing is raised, the mapping is unchanged and does not have
\* the id, skipped_count grows by one and the loop goes on to the next chapter.
C2_SkipWithoutAsset ==
    [][AtChapterWithoutAsset =>
          /\ pc' = "validate_slide_files"
          /\ error' = ""
          /\ slide_mapping' = slide_mapping
          /\ ChapterId(chapter_idx + 1) \notin DOMAIN slide_mapping'
          /\ skipped_count' = skipped_count + 1
          /\ image_count' = image_count
          /\ video_count' = video_count
          /\ chapter_idx' = chapter_idx + 1]_vars

C2_Witness ==
    /\ pc = "build_slide_timeline"
    /\ Len(Chapters) = 2
    /\ ChapterId(1) = <<"1", "0">>
    /\ ~HasThumbnail(ChapterId(1))
    /\ SlideVideos(ChapterId(1)) = {}
    /\ skipped_count = 1
    /\ DOMAIN slide_mapping = {<<"1">>}

\* C3: a slide id with a thumbnail is mapped to an image only, the first file
\* that exists among the declared extension, png, jpg, jpeg, webp; when none
\* exists the missing slide error is raised at that chapter, with or without a
\* slide video of that id.
C3_ImageOnly ==
    (pc \in {"validate_slide_files", "build_slide_timeline"} \/ error = SlideError) =>
        /\ \A id \in DOMAIN slide_mapping :
              HasThumbnail(id) =>
                 \E k \in 1..5 :
                    /\ slide_mapping[id] = <<ImageOrder(id)[k], "image">>
                    /\ ImageOrder(id)[k] \in input_dir
                    /\ \A j \in 1..(k - 1) : ImageOrder(id)[j] \notin input_dir
        /\ \A k \in 1..chapter_idx :
              ChapterId(k) # None /\ HasThumbnail(ChapterId(k)) =>
                 HasImage(ChapterId(k)) /\ ChapterId(k) \in DOMAIN slide_mapping
        /\ error = SlideError =>
              /\ pc = "error"
              /\ chapter_idx < Len(Chapters)
              /\ ChapterId(chapter_idx + 1) # None
              /\ HasThumbnail(ChapterId(chapter_idx + 1))
              /\ ~HasImage(ChapterId(chapter_idx + 1))
        /\ (pc = "build_slide_timeline" \/ error = SlideError) =>
              (MissingImage <=> error = SlideError)

C3_Witness ==
    /\ error = SlideError
    /\ SlideVideos(ChapterId(chapter_idx + 1)) # {}
    /\ chapter_idx = 1

-----------------------------------------------------------------------------
(* Properties of build_slide_timeline and of the plan of process           *)

TimelineBuilt == pc \in {"process", "planned"}

\* the k-th chapter has a slide id that the mapping has
Resolves(k) ==
    LET id == slide_id_of(TitleOr(Chapters[k], ChapterTitle(k)))
    IN  id # None /\ id \in DOMAIN slide_mapping
ResolvedChapters == {k \in 1..Len(Chapters) : Resolves(k)}

GapFree ==
    \A i \in 1..(Len(timeline) - 1) : timeline[i + 1][1] = timeline[i][2]

\* C6 as stated: consecutive segments always meet.
C6_GapFree == TimelineBuilt => GapFree

\* C6 amended: the timeline is gap-free when no chapter is dropped, each
\* chapter ends where the next one starts and no chapter but the last is
\* shorter than 0.1 s.
C6_GapFreeWhenContiguous ==
    /\ TimelineBuilt
    /\ \A k \in 1..Len(Chapters) : Resolves(k)
    /\ \A k \in 1..(Len(Chapters) - 1) :
          /\ Chapters[k]["end_time"] = Chapters[k + 1]["start_time"]
          /\ Chapters[k]["end_time"] - Chapters[k]["start_time"] >= 2
    => GapFree /\ Len(timeline) = Len(Chapters)

C6_Witness ==
    /\ pc = "process"
    /\ Len(timeline) = 2
    /\ \A k \in 1..2 : Resolves(k)
    /\ Chapters[1]["end_time"] = Chapters[2]["start_time"]
    /\ Chapters[1]["end_time"] - Chapters[1]["start_time"] >= 2
    /\ Chapters[2]["end_time"] - Chapters[2]["start_time"] < 2

ScenarioRun == input_dir = ScenarioDir /\ info = ScenarioInfo

\* C7: the clips of the segments, one after the other, last as long as the
\* end of the last segment, which is the total of the progress bar; in the
\* end-to-end scenario that is 30.0 s (600 ticks).
C7_TrackDuration ==
    pc = "planned" =>
        /\ concat_duration(clips) = last_end(timeline)
        /\ total_duration = last_end(timeline)
        /\ ScenarioRun => total_duration = 600

\* C8 as stated: in the end-to-end scenario the timeline has three segments
\* and the middle one is [10, 10.15] (200 and 203 ticks).
C8_ScenarioMiddle1015 ==
    ScenarioRun /\ TimelineBuilt =>
        Len(timeline) = 3 /\ timeline[2][1] = 200 /\ timeline[2][2] = 203

\* C8 amended: in the end-to-end scenario the timeline has three segments and
\* the middle one is [10, 10.1] (200 and 202 ticks).
C8_ScenarioMiddle101 ==
    ScenarioRun /\ TimelineBuilt =>
        Len(timeline) = 3 /\ timeline[2][1] = 200 /\ timeline[2][2] = 202

C8_Witness == ScenarioRun /\ pc = "process" /\ Cardinality(DOMAIN slide_mapping) = 3

\* C9: every chapter that resolves has a segment with its start; the end of
\* that segment is start + 0.1 s when the chapter is shorter than 0.1 s (also
\* when it is empty or negative) and the chapter's end otherwise.
C9_Clamp ==
    TimelineBuilt =>
        /\ Len(timeline) = Cardinality(ResolvedChapters)
        /\ \A k \in ResolvedChapters :
              \E i \in 1..Len(timeline) :
                 /\ timeline[i][1] = Chapters[k]["start_time"]
                 /\ timeline[i][2] =
                       IF Chapters[k]["end_time"] - Chapters[k]["start_time"] < 2
                       THEN Chapters[k]["start_time"] + 2
                       ELSE Chapters[k]["end_time"]

C9_Witness ==
    /\ pc = "process"
    /\ \E k \in ResolvedChapters : Chapters[k]["end_time"] < Chapters[k]["start_time"]
    /\ \E k \in ResolvedChapters : Chapters[k]["end_time"] = Chapters[k]["start_time"] + 1

\* the number of resolved chapters up to the k-th
Rank(k) == Cardinality({j \in ResolvedChapters : j <= k})

\* C10: the segments are the resolved chapters in the order of the chapter
\* list: the segment of a resolved chapter stands at the position that counts
\* the resolved chapters before it, with the chapter's start, its end or
\* start + 0.1 s, and the path and type mapped to its slide id.
C10_OrderPreserving ==
    TimelineBuilt =>
        /\ Len(timeline) = Cardinality(ResolvedChapters)
        /\ \A k \in ResolvedChapters :
              LET seg == timeline[Rank(k)]
                  c == Chapters[k]
                  id == slide_id_of(TitleOr(c, ChapterTitle(k)))
              IN  /\ seg[1] = c["start_time"]
                  /\ seg[2] \in {c["end_time"], c["start_time"] + 2}
                  /\ seg[2] - seg[1] >= 2
                  /\ <<seg[3], seg[4]>> = slide_mapping[id]

C10_Witness ==
    /\ pc = "process"
    /\ Len(timeline) = 2
    /\ timeline[1][1] > timeline[2][1]
    /\ timeline[1][4] # timeline[2][4]

-----------------------------------------------------------------------------
(* Properties of the failure of build_slide_timeline                       *)

BuildReturned == pc # "build_slide_timeline"

\* C11: build_slide_timeline raises the ValidationError of the empty timeline
\* exactly when no chapter has a title with a slide id that the mapping has;
\* in every other case it returns a non-empty timeline without an error,
\* whatever chapters were dropped.
C11_EmptyTimeline ==
    BuildReturned =>
        IF ResolvedChapters = {}
        THEN pc = "error" /\ error = TimelineError /\ timeline = <<>>
        ELSE pc # "error" /\ error = "" /\ timeline # <<>>

\* chapters with a slide id, none of which the mapping has
C11_Witness ==
    /\ pc = "error"
    /\ error = TimelineError
    /\ Len(Chapters) > 0
    /\ \A k \in 1..Len(Chapters) :
          slide_id_of(TitleOr(Chapters[k], ChapterTitle(k))) # None

-----------------------------------------------------------------------------
(* Properties of the supervision of the encoder                            *)

Silent == ~options.verbose
Exited == encoder.state = "exited"
Failed == encoder.returncode \notin {NoExit, 0}
ProcessEnded == pc \in {"done", "error", "exit"}

\* C12: the value of the progress bar never decreases, whatever times the
\* encoder reports and in whatever order.
C12_ProgressMonotone == [][pbar_n' >= pbar_n]_vars

\* C13: every value of the progress bar lies between 0 and the total
\* duration of the plan, whatever times the encoder reports.
C13_ProgressWithinTotal == 0 <= pbar_n /\ pbar_n <= total_duration

\* a report beyond the total has been read and the bar stands at the total
C13_Witness ==
    /\ pc = "lines"
    /\ last_time > total_duration
    /\ pbar_n = total_duration

\* C14: in silent mode the success message is never out while the progress
\* bar is below the total duration.
C14_FullBeforeSuccess == (Silent /\ echoed) => pbar_n = total_duration

\* success after a last report below the total
C14_Witness ==
    /\ Silent
    /\ echoed
    /\ 0 < last_time
    /\ last_time < total_duration

\* C15: when the encoder exits with a non-zero status, in silent and in
\* verbose mode, process ends with the ValidationError of the FFmpeg error,
\* the success message is never printed and the command does not exit 0.
C15_RenderFailed ==
    Failed =>
        /\ ~echoed
        /\ pc # "done"
        /\ exit_code # 0
        /\ ProcessEnded => error = FFmpegError
        /\ pc = "exit" => exit_code = 1

\* a silent run that ended with the FFmpeg error and exit status 1
C15_Witness ==
    /\ Silent
    /\ Failed
    /\ pc = "exit"
    /\ error = FFmpegError
    /\ exit_code = 1

\* C16: in silent mode, once the encoder has exited the read loop ends and
\* the exit status is classified: success message for 0, FFmpeg error
\* otherwise, whatever was written and read before and on either platform.
C16_LoopTerminates ==
    (Silent /\ Exited) ~>
        (ProcessEnded /\ IF encoder.returncode = 0 THEN echoed ELSE error = FFmpegError)

\* the encoder wrote nothing and exited while the supervisor is at a
\* blocking read
C16_Witness ==
    /\ Silent
    /\ env.nt
    /\ pc = "read"
    /\ Exited
    /\ encoder.written = 0

\* C17: the encoder is never stuck in a write to a pipe of the supervisor
\* that nothing reads.
C17_PipesDrained == encoder.state # "blocked"

-----------------------------------------------------------------------------
(* Properties of the picture-in-picture geometry                           *)

ProbeDone == pc \in {"overlay", "run", "error"}

\* C18: whatever makes the probe of the first slide unavailable, process
\* goes on to the overlay with the width of the picture-in-picture computed
\* from the default width 1920.
C18_ProbeNeverFatal ==
    (ProbeDone /\ env.probe_fault # "none") =>
        /\ pc # "error"
        /\ target_pip_width = (1920 * options.pip_scale) \div ScaleDen

\* n / d rounded to the nearest integer, a tie to the even one
Round(n, d) ==
    LET q == n \div d
        r == n % d
    IN  IF 2 * r < d THEN q
        ELSE IF 2 * r > d THEN q + 1
        ELSE IF q % 2 = 0 THEN q ELSE q + 1

\* C19: with the width of the first slide probed, the target width of the
\* picture-in-picture is round(width * pip_scale).
C19_PipWidthRounded ==
    (ProbeDone /\ env.probe_fault = "none") =>
        target_pip_width = Round(env.slide_size[1] * options.pip_scale, ScaleDen)

\* C20: the anchor of the overlay is (W-w, 0) at top-right, (0, 0) at
\* top-left, (W-w, H-h) at bottom-right and (0, H-h) at bottom-left; a
\* 192x108 picture on a 1920x1080 track at top-right is at (1728, 0); and a
\* picture no larger than the track lies inside the track.
C20_OverlayAnchor ==
    pc = "run" =>
        LET W == overlay.W
            H == overlay.H
            w == overlay.w
            h == overlay.h
            p == options.pip_position
        IN  /\ p = "top-right" => overlay.x = W - w /\ overlay.y = 0
            /\ p = "top-left" => overlay.x = 0 /\ overlay.y = 0
            /\ p = "bottom-right" => overlay.x = W - w /\ overlay.y = H - h
            /\ p = "bottom-left" => overlay.x = 0 /\ overlay.y = H - h
            /\ (p = "top-right" /\ <<W, H, w, h>> = <<1920, 1080, 192, 108>>) =>
                   <<overlay.x, overlay.y>> = <<1728, 0>>
            /\ (w <= W /\ h <= H) =>
                   /\ 0 <= overlay.x /\ overlay.x + w <= W
                   /\ 0 <= overlay.y /\ overlay.y + h <= H

\* the 192x108 picture at the top right of the 1920x1080 track
C20_Witness ==
    /\ pc = "run"
    /\ options.pip_position = "top-right"
    /\ overlay = [W |-> 1920, H |-> 1080, w |-> 192, h |-> 108, x |-> 1728, y |-> 0]

-----------------------------------------------------------------------------
(* Properties of main: exit status, cap of the timeline, temporary directory *)

\* main has ended; something has failed on the way
MainEnded == pc = "exit"
RunFailed == error # ""

\* C21: the command ends with status 0 or 1; with 0 only when nothing has
\* failed, the encoder has exited with 0 and the success message is printed;
\* with 1 after every failure (option, path, download, validation, timeline,
\* probe, encoder)
C21_ExitStatus ==
    /\ exit_code \in {NoExit, 0, 1}
    /\ MainEnded <=> exit_code # NoExit
    /\ exit_code = 0 => ~RunFailed /\ echoed /\ encoder.returncode = 0
    /\ MainEnded /\ (RunFailed \/ ~echoed \/ encoder.returncode # 0) => exit_code = 1

\* a run on a URL whose encoder fails ends with status 1
C21_Witness ==
    /\ MainEnded
    /\ is_url(options.input)
    /\ encoder.returncode = 1
    /\ error = "FFmpeg error during video generation"
    /\ exit_code = 1

\* C22: when a run on a URL has ended on the FFmpeg error of process, its
\* temporary directory still exists, with or without --keep-temp, made by the
\* run or found by it
C22_KeptOnFFmpegError ==
    MainEnded /\ is_url(options.input) /\ error = "FFmpeg error during video generation"
    => /\ ffmpeg_error
       /\ temp_dir # ""
       /\ temp_dir \in disk
       /\ exit_code = 1

\* the run made a directory of a random name, --keep-temp was not given
C22_Witness ==
    /\ MainEnded
    /\ is_url(options.input)
    /\ error = "FFmpeg error during video generation"
    /\ ~options.keep_temp
    /\ options.temp_dir = ""
    /\ created_temp_dir
    /\ temp_dir \in disk

\* the timeline is the one that main hands to process
Handed == pc \in {"process", "planned", "overlay"}

\* C23: every segment of the timeline handed to process lasts at least 0.1 s,
\* with and without --max-duration
C23_MinDurationAfterCap ==
    Handed => \A i \in 1..Len(timeline) : timeline[i][2] - timeline[i][1] >= 2

\* without --max-duration the segments handed to process last at least 0.1 s
C23_MinDurationUncapped ==
    Handed /\ options.max_duration = None
    => \A i \in 1..Len(timeline) : timeline[i][2] - timeline[i][1] >= 2

\* the timeline that build_slide_timeline returned, before the cap
Uncapped == build_slide_timeline(json_data, slide_mapping).value

\* the index in u of the k-th segment among those of the index set K
Nth(K, k) == CHOOSE i \in K : Cardinality({j \in K : j <= i}) = k

\* C24: with --max-duration the timeline handed to process holds exactly the
\* segments that start strictly before the cap, in their order, each with its
\* end cut to the cap if it lies beyond and with nothing else changed
C24_CapStrictEveryEnd ==
    Handed /\ options.max_duration # None
    => LET cap == options.max_duration[1] * 20
           u == Uncapped
           K == {i \in 1..Len(u) : u[i][1] < cap}
       IN  /\ Len(timeline) = Cardinality(K)
           /\ \A k \in 1..Len(timeline) :
                LET seg == u[Nth(K, k)]
                IN  timeline[k] = <<seg[1], IF seg[2] < cap THEN seg[2] ELSE cap,
                                    seg[3], seg[4]>>

\* of two segments the one that starts at the cap is dropped and the one that
\* ends beyond the cap is cut
C24_Witness ==
    /\ Handed
    /\ options.max_duration = <<1>>
    /\ Len(Uncapped) = 2
    /\ Uncapped[1][1] = 0 /\ Uncapped[1][2] = 40
    /\ Uncapped[2][1] = 20
    /\ Len(timeline) = 1
    /\ timeline[1][1] = 0 /\ timeline[1][2] = 20

\* C24 as stated: the segments whose start is not beyond the cap are kept, the
\* end of the last of them is cut to the cap and the others are unchanged
C24_CapInclusiveLastEnd ==
    Handed /\ options.max_duration # None
    => LET cap == options.max_duration[1] * 20
           u == Uncapped
           K == {i \in 1..Len(u) : u[i][1] <= cap}
       IN  /\ Len(timeline) = Cardinality(K)
           /\ \A k \in 1..Len(timeline) :
                LET seg == u[Nth(K, k)]
                IN  timeline[k] =
                        IF k = Len(timeline)
                        THEN <<seg[1], IF seg[2] < cap THEN seg[2] ELSE cap,
                               seg[3], seg[4]>>
                        ELSE seg

\* a run on a URL has ended with status 0
UrlRunSucceeded == MainEnded /\ exit_code = 0 /\ is_url(options.input)

\* C25: after a successful run on a URL the temporary directory exists if
\* --temp-dir or --keep-temp was given or the run resumed in a directory it
\* found; it is removed only if the run made a directory of a random name and
\* --keep-temp was not given
C25_KeptUnlessRandom ==
    UrlRunSucceeded
    => /\ options.temp_dir # "" \/ options.keep_temp \/ ~created_temp_dir
          => temp_dir \in disk
       /\ temp_dir \notin disk => temp_dir = RandomDir /\ ~options.keep_temp

\* after a successful run on a URL the temporary directory exists exactly if
\* --keep-temp was given or the run found the directory of --temp-dir
C25_KeptUnlessCreated ==
    UrlRunSucceeded => (temp_dir \in disk <=> options.keep_temp \/ ~created_temp_dir)

\* C26: process is never called with an empty timeline: a timeline without a
\* segment ends the run with the ValidationError of the empty timeline before
\* process starts
C26_NeverEmptyAtProcess == pc \in {"process", "planned"} => timeline # <<>>

\* without --max-duration process is never called with an empty timeline
C26_NeverEmptyUncapped ==
    options.max_duration = None /\ pc \in {"process", "planned"} => timeline # <<>>

\* validate_slide_files has returned
SlidesValidated ==
    pc \in {"build_slide_timeline", "max_duration", "process", "planned"}
    \/ error = "No chapters found to create timeline"

\* C27: the three counters partition the chapters: after k iterations of the
\* loop of validate_slide_files they add up to k, each iteration adds one to
\* exactly one of them, and when validate_slide_files has returned they add up
\* to the number of chapters
C27_CountersPartition ==
    /\ pc = "validate_slide_files"
       => image_count + video_count + skipped_count = chapter_idx
    /\ SlidesValidated
       => image_count + video_count + skipped_count = Len(json_data["chapters"].items)

\* two chapters: one image slide and one video slide
C27_Witness ==
    /\ pc = "build_slide_timeline"
    /\ Len(json_data["chapters"].items) = 2
    /\ image_count = 1
    /\ video_count = 1
    /\ skipped_count = 0

\* two chapters: one without a slide id, one whose slide has no file
C27_WitnessSkipped ==
    /\ pc = "build_slide_timeline"
    /\ Len(json_data["chapters"].items) = 2
    /\ skipped_count = 2

\* the summary that main prints before it calls process
Summary == generation_summary(timeline, image_count, video_count, skipped_count)

\* C28: in the summary the total of slides is the number of static slides plus
\* the number of video slides, whatever the input and the options
C28_SummaryConsistent ==
    Handed => Summary.total_slides = Summary.static + Summary.video

\* without --max-duration the total of the summary is the sum of the two counts
C28_SummaryConsistentUncapped ==
    Handed /\ options.max_duration = None
    => Summary.total_slides = Summary.static + Summary.video

\* C29: a directory that the run has not made is never removed: every
\* directory present at the start is present in every state up to the exit;
\* created_temp_dir is set only in a run on a URL, for a directory that was
\* not there at the start; no directory other than temp_dir appears
C29_OnlyCreatedRemoved ==
    /\ InitialDisk(env) \subseteq disk
    /\ created_temp_dir
       => temp_dir # "" /\ temp_dir \notin InitialDisk(env) /\ is_url(options.input)
    /\ disk \subseteq InitialDisk(env) \cup {temp_dir}

\* a run on a URL that resumed in the directory of --temp-dir and failed in the
\* download, without --keep-temp: the directory is still there
C29_Witness ==
    /\ MainEnded
    /\ is_url(options.input)
    /\ options.temp_dir = "tmp"
    /\ ~options.keep_temp
    /\ ~created_temp_dir
    /\ error = "Download failed"
    /\ "tmp" \in disk

\* a run on a local directory given with --temp-dir has succeeded
C29_WitnessLocal ==
    /\ MainEnded
    /\ options.input = "content"
    /\ options.temp_dir = "tmp"
    /\ env.temp_dir_exists
    /\ exit_code = 0
    /\ {"content", "tmp"} \subseteq disk

\* the slide id in the name of a file, None if there is none
FileSlideId(name) == slide_id_of(name)

\* C30: a slide id that is mapped to a video is mapped to a slide video of
\* that id: the id in the name of the file is the id of the slide, whatever
\* the order of the directory listing
C30_VideoSlideOwnId ==
    \A id \in DOMAIN slide_mapping :
        slide_mapping[id][2] = "video" => FileSlideId(slide_mapping[id][1]) = id

\* when the directory holds no slide video whose id starts with the id of
\* another slide (no "Slide 10" for the id 1), the asset is the one of the slide
C30_OwnIdWithoutPrefixClash ==
    SlideVideoName(<<"1", "0">>) \notin input_dir
    => \A id \in DOMAIN slide_mapping :
        slide_mapping[id][2] = "video" => FileSlideId(slide_mapping[id][1]) = id

====
